---- MODULE Spec2Model ----
(***************************************************************************)
(* The retrieval-augmented generation pipeline of the RAG playground:      *)
(* POST /api/query (backend/routes/query.js) sequencing queryChunks        *)
(* (pinecone.js), rerankChunks (reranker.js) and generateAnswer (llm.js).  *)
(*                                                                         *)
(* Text is a sequence of atoms.  An atom is a one-character string, or a   *)
(* fixed literal of the source written as one string.  No literal holds a  *)
(* bracket marker, and no literal that becomes part of an error message    *)
(* holds one of the words the code searches error messages for.            *)
(*                                                                         *)
(* Spec is one request after another through the server: the query        *)
(* handler step by step, and the upload, clear, health and readiness       *)
(* routes and the JSON body parser as one step each.  Five parts of the    *)
(* program are also run on their own: InitSpec is initPinecone entered by  *)
(* several callers at once, RerankSpec is rerankChunks called directly,    *)
(* UpsertSpec is upsertChunks batch by batch, ChunkSpec is chunkText       *)
(* (backend/chunker.js) applied to a text, and FrontSpec is the query      *)
(* panel of the page (frontend/app.js).                                    *)
(***************************************************************************)
EXTENDS Integers, Sequences, FiniteSets, TLC

VARIABLES
    env,              \* process.env: which API keys are set
    pinecone, index,  \* pinecone.js: the client and index handles are set
    cohere,           \* reranker.js: the client handle is set
    initialized,      \* llm.js: the initialized flag
    pc,               \* where the handler of POST /api/query stands
    body,             \* req.body
    timing,           \* the keys of the handler's timing object
    retrievalResult,  \* what queryChunks resolved with
    rerankResult,     \* what rerankChunks resolved with
    prompt,           \* the context blocks of the prompt sent to the LLM
    llmResult,        \* what generateAnswer resolved with
    response,         \* the HTTP response sent
    calls,            \* the provider calls issued for this request, in order
    outcomes,         \* how each settled call of calls ended, in order
    inflight,         \* the provider calls issued and not yet settled
    raised,           \* the error the failed provider call rejected with
    caught,           \* the error caught by the handler's catch block
    args,             \* the arguments of a function called on its own
    returned,         \* what that function returned or threw
    callers,          \* where each concurrent caller of initPinecone stands
    clients,          \* the Pinecone clients constructed so far
    creates,          \* the createIndex calls issued so far
    remote,           \* whether the provider holds the index
    store,            \* the ids of the vectors the index holds
    cleared,          \* DELETE /api/upload succeeded and nothing was upserted since
    served,           \* the route beside POST /api/query that answered, if any
    writes,           \* the responses written for the request at hand, in order
    job,              \* the locals of an upsertChunks call
    submitted,        \* the queries the page has submitted so far
    pending,          \* the submitted queries whose fetch has not settled
    answerContent,    \* what the answer panel of the page shows
    loadingOverlay,   \* whether the loading overlay of the page is shown
    queryBtn          \* the query button of the page

\* the state of the functions modelled on their own
standalone == <<args, returned, callers, clients, creates, remote>>

\* the store and the routes beside POST /api/query
beside == <<store, cleared, served>>

\* the page of the frontend
page == <<submitted, pending, answerContent, loadingOverlay, queryBtn>>

vars == <<env, pinecone, index, cohere, initialized,
          pc, body, timing, retrievalResult, rerankResult, prompt, llmResult,
          response, calls, outcomes, inflight, raised, caught, standalone,
          beside, writes, job, page>>

(* ------------------------------ bounds --------------------------------- *)
MaxMatches == 2        \* matches the vector store returns for one query
MaxAnswerTokens == 2   \* pieces the generated completion is made of
MaxCallers == 2        \* operations that enter initPinecone concurrently
MaxSentences == 4      \* sentences of a document given to the chunker
MaxRuns == 3           \* character runs of a short text given to the chunker
MaxChunks == 101       \* chunks given to upsertChunks
MaxQueries == 4        \* queries submitted on the page

(* ------------------------- program constants --------------------------- *)
DefaultTopK == 10
DefaultTopN == 5
MinQueryLength == 3
PreviewLength == 200

(* ------------------------------ helpers -------------------------------- *)
Min(a, b) == IF a < b THEN a ELSE b
Max(a, b) == IF a > b THEN a ELSE b
Rep(n, c) == [i \in 1..n |-> c]
Range(s) == {s[i] : i \in 1..Len(s)}
Has(r, k) == k \in DOMAIN r

\* String.prototype.trim on a sequence of characters
RECURSIVE TrimLeft(_)
TrimLeft(s) == IF s # <<>> /\ Head(s) = " " THEN TrimLeft(Tail(s)) ELSE s
RECURSIVE TrimRight(_)
TrimRight(s) ==
    IF s # <<>> /\ s[Len(s)] = " " THEN TrimRight(SubSeq(s, 1, Len(s) - 1)) ELSE s
Trim(s) == TrimRight(TrimLeft(s))

\* x || d for a string and for a number
OrStr(x, d) == IF x = <<>> THEN d ELSE x
OrNum(x, d) == IF x = 0 THEN d ELSE x

(* --------------------------- request bodies ---------------------------- *)
ValidQuery == <<"q", "q", "q">>
QueryValues ==
    { [type |-> "undefined"],
      [type |-> "number", num |-> 7],
      [type |-> "string", chars |-> <<>>],
      [type |-> "string", chars |-> <<"q", "q">>],
      [type |-> "string", chars |-> <<" ", "q", "q", " ">>],
      [type |-> "string", chars |-> ValidQuery] }
TopKValues == {1}
TopNValues == (-1)..(MaxMatches - 1)
Bodies ==
    { q @@ k @@ n :
        q \in {[query |-> v] : v \in QueryValues},
        k \in {<<>>} \cup {[topK |-> v] : v \in TopKValues},
        n \in {<<>>} \cup {[topN |-> v] : v \in TopNValues} }

\* a length check on the untrimmed query
QueryTooShortUntrimmed(q) == Len(q.chars) < MinQueryLength

\* query.js:24 and query.js:31
Falsy(q) ==
    \/ q.type = "undefined"
    \/ q.type = "number" /\ q.num = 0
    \/ q.type = "string" /\ q.chars = <<>>
QueryMissingOrInvalid(q) == Falsy(q) \/ q.type # "string"
QueryTooShort(q) == Len(Trim(q.chars)) < MinQueryLength

TopKOf(b) == IF Has(b, "topK") THEN b.topK ELSE DefaultTopK
TopNOf(b) == IF Has(b, "topN") THEN b.topN ELSE DefaultTopN

(* -------------------------------- text --------------------------------- *)
Digits == <<"0", "1", "2", "3", "4", "5", "6", "7", "8", "9">>
IsDigit(c) == c \in Range(Digits)
DigitValue(c) == (CHOOSE i \in 1..10 : Digits[i] = c) - 1

\* parseInt of a run of digits
RECURSIVE ParseInt(_)
ParseInt(ds) ==
    IF ds = <<>> THEN 0
    ELSE 10 * ParseInt(SubSeq(ds, 1, Len(ds) - 1)) + DigitValue(ds[Len(ds)])

\* String(n) for n >= 0
RECURSIVE NumToText(_)
NumToText(n) ==
    IF n < 10 THEN <<Digits[n + 1]>>
    ELSE Append(NumToText(n \div 10), Digits[(n % 10) + 1])

\* String.prototype.length
RECURSIVE CharLen(_)
CharLen(s) ==
    IF Len(s) = 0 THEN 0
    ELSE IF Len(s) = 1 THEN Len(s[1])
    ELSE LET half == Len(s) \div 2 IN
         CharLen(SubSeq(s, 1, half)) + CharLen(SubSeq(s, half + 1, Len(s)))

\* String.prototype.includes for a needle made of characters
Includes(s, needle) ==
    \E i \in 1..(Len(s) - Len(needle) + 1) :
        SubSeq(s, i, i + Len(needle) - 1) = needle

\* String.prototype.substring(0, n) for a text made of characters
Substring0(s, n) == SubSeq(s, 1, Min(n, Len(s)))

CeilDiv(a, b) == (a + b - 1) \div b

(* -------------------- the vector store and its provider ---------------- *)
\* The records the index holds, as upsertChunks wrote them, with the
\* similarity the provider computes between each and the query at hand.
StoredIds == 1..3
Stored(id) ==
    CASE id = 1 -> [id |-> 1, score |-> 2,
                    metadata |-> [text |-> <<"a", "b">>, source |-> <<"s">>,
                                  title |-> <<"T">>, section |-> <<"S">>,
                                  position |-> 0]]
      [] id = 2 -> [id |-> 2, score |-> 1,
                    metadata |-> [text |-> Rep(PreviewLength + 1, "a"),
                                  source |-> <<>>, title |-> <<>>,
                                  section |-> <<>>, position |-> 1]]
      [] OTHER  -> [id |-> 3, score |-> 1,
                    metadata |-> [text |-> Rep(PreviewLength, "a"),
                                  source |-> <<"s">>, title |-> <<"T">>,
                                  section |-> <<>>, position |-> 2]]

\* sequences of distinct elements of S of length at most n
RECURSIVE DistinctSeqs(_, _)
DistinctSeqs(S, n) ==
    IF n <= 0 THEN {<<>>}
    ELSE LET shorter == DistinctSeqs(S, n - 1)
         IN  shorter \cup
             UNION { {Append(t, x) : x \in S \ Range(t)} :
                     t \in {u \in shorter : Len(u) = n - 1} }

\* what index.query may answer when asked for topK matches
MatchListsOf(held, topK) ==
    {[i \in 1..Len(ids) |-> Stored(ids[i])] :
        ids \in DistinctSeqs(held, Min(topK, MaxMatches))}
MatchLists(topK) == MatchListsOf(StoredIds, topK)

\* errors a call of the vector store provider may raise
PineconeErrors ==
    { [message |-> <<"e">>],
      [message |-> <<"q">>, status |-> 429],
      [message |-> <<"4", "2", "9">>] }

(* --------------------- pinecone.js: the query side --------------------- *)
RateLimitEmbedError ==
    [message |-> <<"Rate limit exceeded for embedding API">>,
     isRateLimit |-> TRUE, status |-> 429]
InvalidEmbeddingError == [message |-> <<"Invalid embedding response from Pinecone">>]
MissingPineconeKey == [message |-> <<"PINECONE_API_KEY is not set">>]

\* the catch block of generateQueryEmbedding
ClassifyEmbedError(e) ==
    IF (Has(e, "status") /\ e.status = 429) \/ Includes(e.message, <<"4", "2", "9">>)
    THEN RateLimitEmbedError
    ELSE e

\* the catch block inside the batch loop of generateEmbeddings
RateLimitBatchError ==
    [message |-> <<"Rate limit reached: You have exceeded the maximum tokens per minute for the embedding model. Please try with a smaller PDF file.">>,
     isRateLimit |-> TRUE, status |-> 429]
ClassifyBatchError(e) ==
    IF \/ Has(e, "status") /\ e.status = 429
       \/ Includes(e.message, <<"4", "2", "9">>)
       \/ Includes(e.message, <<"RESOURCE_EXHAUSTED">>)
       \/ Includes(e.message, <<"max tokens per minute">>)
    THEN RateLimitBatchError
    ELSE e

\* the two inner catch blocks of queryChunks
WrapEmbedError(e) ==
    [message |-> <<"Failed to generate query embedding: ">> \o e.message]
WrapQueryError(e) ==
    [message |-> <<"Failed to query vector database: ">> \o e.message]

\* the result formatting of queryChunks
FormatMatches(matches) ==
    [i \in 1..Len(matches) |->
        LET m == matches[i] IN
        [id |-> m.id,
         score |-> m.score,
         text |-> OrStr(m.metadata.text, <<>>),
         metadata |-> [source |-> OrStr(m.metadata.source, <<>>),
                       title |-> OrStr(m.metadata.title, <<>>),
                       section |-> OrStr(m.metadata.section, <<>>),
                       position |-> OrNum(m.metadata.position, i - 1)]]]

(* ----------------------------- reranker.js ----------------------------- *)
MissingCohereKey == [message |-> <<"COHERE_API_KEY is not set">>]

\* the topN sent to the provider
RerankRequestTopN(chunks, topN) == Min(topN, Len(chunks))

\* what the provider may answer: results name distinct documents by their
\* zero-based index, as many as were asked for
RerankResponses(chunks, topN) ==
    LET asked == Max(0, RerankRequestTopN(chunks, topN)) IN
    {[i \in 1..Len(ixs) |-> [index |-> ixs[i], relevanceScore |-> ixs[i]]] :
        ixs \in {s \in DistinctSeqs(0..(Len(chunks) - 1), asked) : Len(s) = asked}}

\* mapping the results back to the original chunks
MapReranked(chunks, results) ==
    [i \in 1..Len(results) |->
        [relevanceScore |-> results[i].relevanceScore,
         rerankIndex |-> results[i].index] @@ chunks[results[i].index + 1]]

\* Array.prototype.slice(0, end)
Slice0(s, end) ==
    SubSeq(s, 1, IF end < 0 THEN Max(Len(s) + end, 0) ELSE Min(end, Len(s)))

\* a comparator that sorts ascending
CompareScoreAscending(a, b) == OrNum(a.score, 0) - OrNum(b.score, 0)

\* the comparator of the fallback sort
CompareScore(a, b) == OrNum(b.score, 0) - OrNum(a.score, 0)

\* Array.prototype.sort is stable: an element goes behind every element
\* that does not compare greater than it
RECURSIVE InsertByScore(_, _)
InsertByScore(s, x) ==
    IF s = <<>> THEN <<x>>
    ELSE IF CompareScore(Head(s), x) <= 0
         THEN <<Head(s)>> \o InsertByScore(Tail(s), x)
         ELSE <<x>> \o s
RECURSIVE SortByScore(_)
SortByScore(s) ==
    IF s = <<>> THEN <<>>
    ELSE InsertByScore(SortByScore(SubSeq(s, 1, Len(s) - 1)), s[Len(s)])

\* the try branch of rerankChunks
RerankSuccess(chunks, results) ==
    [chunks |-> MapReranked(chunks, results),
     originalCount |-> Len(chunks),
     rerankedCount |-> Len(results)]

\* the catch branch of rerankChunks
RerankFallback(chunks, topN) ==
    LET sortedChunks == Slice0(SortByScore(chunks), topN) IN
    [chunks |-> sortedChunks,
     originalCount |-> Len(chunks),
     rerankedCount |-> Len(sortedChunks),
     fallback |-> TRUE]

(* -------------------------------- llm.js ------------------------------- *)
LLMModel == "xiaomi/mimo-v2-flash:free"
MissingOpenRouterKey == [message |-> <<"OPENROUTER_API_KEY is not set">>]
NoDocumentsAnswer ==
    <<"I don't have any documents to search through. Please upload some text first using the upload feature.">>
DefaultTitle == <<"Document">>
DefaultSection == <<"Content">>

\* the context blocks of buildRAGPrompt, one per chunk, in order
ContextParts(chunks) ==
    [i \in 1..Len(chunks) |->
        [citation |-> <<"[">> \o NumToText(i) \o <<"]">>,
         title |-> OrStr(chunks[i].metadata.title, DefaultTitle),
         section |-> OrStr(chunks[i].metadata.section, DefaultSection),
         text |-> chunks[i].text]]

\* lengths of the fixed parts of the prompt template; a chunk's text is
\* made of characters only
PromptHeadLength == 625
PromptMiddleLength == 22
PromptTailLength == 64
PartSeparatorLength == 7
PartLabelLength == 22

RECURSIVE SumLengths(_)
SumLengths(parts) ==
    IF parts = <<>> THEN 0
    ELSE LET p == Head(parts) IN
         CharLen(p.citation) + PartLabelLength + CharLen(p.title)
         + CharLen(p.section) + Len(p.text) + SumLengths(Tail(parts))

\* prompt.length
PromptLength(query, chunks) ==
    PromptHeadLength + SumLengths(ContextParts(chunks))
    + PartSeparatorLength * (Len(chunks) - 1)
    + PromptMiddleLength + CharLen(query) + PromptTailLength

\* answer.match(/\[\d+\]/g), each match already reduced to its digits
RECURSIVE DigitRunEnd(_, _)
DigitRunEnd(s, i) ==
    IF i <= Len(s) /\ IsDigit(s[i]) THEN DigitRunEnd(s, i + 1) ELSE i
RECURSIVE CitationMatches(_, _)
CitationMatches(s, i) ==
    IF i > Len(s) THEN <<>>
    ELSE IF s[i] = "["
         THEN LET j == DigitRunEnd(s, i + 1) IN
              IF j > i + 1 /\ j <= Len(s) /\ s[j] = "]"
              THEN <<SubSeq(s, i + 1, j - 1)>> \o CitationMatches(s, j + 1)
              ELSE CitationMatches(s, i + 1)
         ELSE CitationMatches(s, i + 1)

\* a list that keeps its repeated values
DedupeNone(xs) == xs

\* [...new Set(xs)]: the first occurrence of every value, in order
RECURSIVE Dedupe(_)
Dedupe(xs) ==
    IF xs = <<>> THEN <<>>
    ELSE LET front == SubSeq(xs, 1, Len(xs) - 1)
             last == xs[Len(xs)]
         IN  IF last \in Range(front) THEN Dedupe(front)
             ELSE Append(Dedupe(front), last)

UsedCitations(answer) ==
    LET ms == CitationMatches(answer, 1)
        nums == [i \in 1..Len(ms) |-> ParseInt(ms[i])]
    IN  Dedupe(SelectSeq(nums, LAMBDA n : n > 0))

\* the citation built for marker number num
CitationFor(num, chunks) ==
    LET chunk == chunks[num] IN
    [number |-> num,
     text |-> IF chunk.text # <<>>
              THEN Substring0(chunk.text, PreviewLength)
                   \o (IF Len(chunk.text) > PreviewLength
                       THEN <<".", ".", ".">> ELSE <<>>)
              ELSE <<>>,
     source |-> OrStr(chunk.metadata.title, DefaultTitle),
     section |-> OrStr(chunk.metadata.section, DefaultSection)]

InRange(num, chunks) == num <= Len(chunks)

ExtractCitations(answer, chunks) ==
    LET used == SelectSeq(UsedCitations(answer), LAMBDA n : InRange(n, chunks))
    IN  [i \in 1..Len(used) |-> CitationFor(used[i], chunks)]

\* the no-context return of generateAnswer (tokensUsed: 0 is written as a
\* record whose total is 0)
NoContextResult ==
    [answer |-> NoDocumentsAnswer, citations |-> <<>>,
     tokensUsed |-> [total |-> 0], noContext |-> TRUE]

\* the successful return of generateAnswer
AnswerResult(query, chunks, content) ==
    LET answer == OrStr(content, <<"No response generated">>)
        inputTokens == CeilDiv(PromptLength(query, chunks), 4)
        outputTokens == CeilDiv(CharLen(answer), 4)
    IN  [answer |-> answer,
         citations |-> ExtractCitations(answer, chunks),
         tokensUsed |-> [input |-> inputTokens, output |-> outputTokens,
                         total |-> inputTokens + outputTokens],
         model |-> LLMModel]

\* the early returns for the status codes 429 and 5xx
RateLimitedResult ==
    [answer |-> <<"The LLM service is currently rate limited. Please wait a moment and try again.">>,
     citations |-> <<>>, error |-> "rate_limit", model |-> LLMModel]
UnavailableResult ==
    [answer |-> <<"The LLM service is temporarily unavailable. Please try again later.">>,
     citations |-> <<>>, error |-> "service_unavailable", model |-> LLMModel]

\* the outer catch block of generateAnswer
CaughtResult(e) ==
    IF \/ Includes(e.message, <<"q", "u", "o", "t", "a">>)
       \/ Includes(e.message, <<"r", "a", "t", "e">>)
       \/ Includes(e.message, <<"4", "2", "9">>)
    THEN [answer |-> <<"I'm currently experiencing high demand. Please try again in a moment.">>,
          citations |-> <<>>, error |-> "rate_limit", model |-> LLMModel]
    ELSE [answer |-> <<"Unable to generate answer: ">> \o e.message,
          citations |-> <<>>, error |-> "generation_error", model |-> LLMModel]

\* what the generation provider may say in an error text
ProviderMessages == { <<"x">>, <<"r", "a", "t", "e">>, <<"[", "1", "]">> }

\* the pieces a completion is made of
AnswerTokens ==
    { <<"[", "1", "]">>, <<"[", "2", "]">>, <<"[", "9", "]">>,
      <<"[", "0", "]">>, <<"[">> }
RECURSIVE Completions(_)
Completions(n) ==
    IF n = 0 THEN {<<>>}
    ELSE LET shorter == Completions(n - 1) IN
         shorter \cup {c \o t : c \in shorter, t \in AnswerTokens}

\* how the fetch of generateAnswer may end
GenerationOutcomes ==
    {[kind |-> "abort"]}
    \cup {[kind |-> "network", message |-> m] : m \in ProviderMessages}
    \cup {[kind |-> "status", status |-> st, errorData |-> d] :
            st \in {400, 429, 503}, d \in {"unparsable", "null", "empty"}}
    \cup {[kind |-> "status", status |-> 400, errorData |-> "message", message |-> m] :
            m \in ProviderMessages}
    \cup {[kind |-> "ok", parsable |-> FALSE]}
    \cup {[kind |-> "ok", parsable |-> TRUE, content |-> c] :
            c \in Completions(MaxAnswerTokens)}

\* generateAnswer from the fetch on, for one way the fetch ends
GenerateResult(query, chunks, o) ==
    CASE o.kind = "abort" ->
           CaughtResult([message |->
               <<"Request timed out. The LLM service is taking too long to respond.">>])
      [] o.kind = "network" ->
           CaughtResult([message |->
               <<"Network error connecting to LLM service: ">> \o o.message])
      [] o.kind = "status" ->
           IF o.errorData = "null"
           THEN CaughtResult([message |->
                    <<"Cannot read properties of null (reading 'error')">>])
           ELSE IF o.status = 429 THEN RateLimitedResult
           ELSE IF o.status >= 500 THEN UnavailableResult
           ELSE CaughtResult([message |->
                    IF o.errorData = "message"
                    THEN o.message
                    ELSE <<"OpenRouter API error: ">> \o NumToText(o.status)])
      [] o.kind = "ok" ->
           IF ~o.parsable
           THEN CaughtResult([message |-> <<"Invalid response from LLM service">>])
           ELSE AnswerResult(query, chunks, o.content)

(* ------------------------- routes/query.js ----------------------------- *)
None == [none |-> TRUE]
JsonNull == [null |-> TRUE]
ApiKeys == {"PINECONE_API_KEY", "COHERE_API_KEY", "OPENROUTER_API_KEY"}

\* the keys the health routes look at, and all keys of process.env read
HealthKeys == {"PINECONE_API_KEY", "COHERE_API_KEY", "GEMINI_API_KEY"}
EnvKeys == ApiKeys \cup HealthKeys

\* the environments of the functions run on their own: the key the health
\* routes read instead of the generation key is set with it
StandaloneEnvironments ==
    {e \in [EnvKeys -> BOOLEAN] : e["GEMINI_API_KEY"] = e["OPENROUTER_API_KEY"]}

\* Number.prototype.toFixed(4) of a whole number
ToFixed4(n) == NumToText(n) \o <<".", "0", "0", "0", "0">>

\* the sources prepared for display
Sources(chunks) ==
    [i \in 1..Len(chunks) |->
        LET chunk == chunks[i] IN
        [number |-> i,
         title |-> OrStr(chunk.metadata.title, DefaultTitle),
         section |-> OrStr(chunk.metadata.section, DefaultSection),
         text |-> chunk.text,
         relevanceScore |-> IF Has(chunk, "relevanceScore")
                            THEN ToFixed4(chunk.relevanceScore)
                            ELSE ToFixed4(chunk.score),
         position |-> chunk.metadata.position]]

\* llm.js: estimateCost
EstimateCost(tokensUsed) ==
    [inputCost |-> "0.000000", outputCost |-> "0.000000",
     totalCost |-> "0.000000", currency |-> "USD"]

Truthy(tokensUsed) == tokensUsed.total # 0

\* keys whose value is undefined do not reach the JSON payload
Optional(r, k, as) == IF Has(r, k) THEN (as :> r[k]) ELSE <<>>

BadRequest(error, message) ==
    [status |-> 400, payload |-> [error |-> error, message |-> message]]

NoDocumentsResponse ==
    [status |-> 200,
     payload |-> [success |-> TRUE,
                  answer |-> NoDocumentsAnswer,
                  citations |-> <<>>,
                  sources |-> <<>>,
                  timing |-> {"totalMs", "retrievalMs"},
                  noDocuments |-> TRUE]]

\* the res.json of the full pipeline
AnswerResponse(b, retrieval, rerank, llm) ==
    [status |-> 200,
     payload |->
        [success |-> TRUE,
         answer |-> llm.answer,
         citations |-> llm.citations,
         sources |-> Sources(rerank.chunks),
         timing |-> {"totalMs", "retrievalMs", "rerankMs", "generationMs"},
         costEstimate |-> IF Has(llm, "tokensUsed") /\ Truthy(llm.tokensUsed)
                          THEN EstimateCost(llm.tokensUsed) ELSE JsonNull,
         metadata |-> [query |-> b.query.chars,
                       chunksRetrieved |-> Len(retrieval.chunks),
                       chunksAfterRerank |-> Len(rerank.chunks),
                       rerankFallback |-> Has(rerank, "fallback") /\ rerank.fallback]
                      @@ Optional(llm, "model", "model")]
        @@ Optional(llm, "tokensUsed", "tokens")]

\* the catch block of the handler; t is the timing object at the throw
QueryFailed(e, t) ==
    [status |-> 500,
     payload |-> [error |-> "Query failed",
                  message |-> e.message,
                  timing |-> {"totalMs"} \cup t]]

\* a handler without the no-results return
NoResultsNever(chunks) == FALSE

\* the condition of the no-results return
NoResults(chunks) == Len(chunks) = 0

(* ------------------------------ actions -------------------------------- *)
\* the page before its first query
PageIdle ==
    /\ submitted = 0 /\ pending = {}
    /\ answerContent = None
    /\ loadingOverlay = FALSE
    /\ queryBtn = [disabled |-> FALSE]

Init ==
    /\ env \in [EnvKeys -> BOOLEAN]
    /\ pinecone = FALSE /\ index = FALSE
    /\ cohere = FALSE
    /\ initialized = FALSE
    /\ pc = "idle"
    /\ body = None
    /\ timing = {}
    /\ retrievalResult = None
    /\ rerankResult = None
    /\ prompt = None
    /\ llmResult = None
    /\ response = None
    /\ calls = <<>>
    /\ outcomes = <<>>
    /\ inflight = {}
    /\ raised = None /\ caught = None
    /\ args = None /\ returned = None
    /\ callers = <<>> /\ clients = 0 /\ creates = 0 /\ remote = FALSE
    /\ store = StoredIds /\ cleared = FALSE
    /\ served = None /\ writes = <<>>
    /\ job = None
    /\ PageIdle

\* the call the handler is suspended on, if any
Awaited == IF inflight = {} THEN {} ELSE {calls[Len(calls)]}

\* that call has settled as how
Settled(how) == IF Awaited = {} THEN outcomes ELSE Append(outcomes, how)

\* the handler resumes and ends with the response r
Reply(r, how) ==
    /\ pc' = "done"
    /\ response' = r
    /\ writes' = Append(writes, r)
    /\ outcomes' = Settled(how)
    /\ inflight' = inflight \ Awaited
    /\ calls' = calls

\* a handler that makes its next calls without waiting for the pending one
AwaitNoWait(p, how, issued) ==
    /\ pc' = p
    /\ response' = response
    /\ writes' = writes
    /\ outcomes' = outcomes
    /\ inflight' = inflight \cup Range(issued)
    /\ calls' = calls \o issued

\* the handler resumes, makes the calls in issued and suspends at p
Await(p, how, issued) ==
    /\ pc' = p
    /\ response' = response
    /\ writes' = writes
    /\ outcomes' = Settled(how)
    /\ inflight' = (inflight \ Awaited) \cup Range(issued)
    /\ calls' = calls \o issued

\* a request arrives: validation, then queryChunks up to its first await
Post(b) ==
    /\ pc = "idle" /\ served = None
    /\ body' = b
    /\ UNCHANGED <<standalone, beside, job, page, env, index, cohere, initialized, timing,
                   retrievalResult, rerankResult, prompt, llmResult>>
    /\ IF QueryMissingOrInvalid(b.query)
       THEN /\ response' = BadRequest("Missing or invalid query",
                                      "Please provide a \"query\" field with your question")
            /\ pc' = "done" /\ calls' = <<>> /\ pinecone' = pinecone
       ELSE IF QueryTooShort(b.query)
       THEN /\ response' = BadRequest("Query too short",
                                      "Please provide at least 3 characters")
            /\ pc' = "done" /\ calls' = <<>> /\ pinecone' = pinecone
       ELSE IF pinecone /\ index
       THEN /\ response' = None
            /\ pc' = "embed" /\ calls' = <<"embed">> /\ pinecone' = pinecone
       ELSE IF ~env["PINECONE_API_KEY"]
       THEN /\ response' = QueryFailed(MissingPineconeKey, {})
            /\ pc' = "done" /\ calls' = <<>> /\ pinecone' = pinecone
       ELSE /\ response' = None
            /\ pc' = "listIndexes" /\ calls' = <<"listIndexes">>
            /\ pinecone' = TRUE
    /\ inflight' = Range(calls')
    /\ outcomes' = <<>>
    /\ raised' = None
    /\ caught' = IF response' # None /\ response'.status = 500
                 THEN MissingPineconeKey ELSE None
    /\ writes' = IF response' # None THEN <<response'>> ELSE <<>>

\* initPinecone: pinecone.listIndexes() resolves
ListIndexesResolve(indexExists) ==
    /\ pc = "listIndexes"
    /\ UNCHANGED <<standalone, beside, job, page, env, pinecone, cohere, initialized, body, timing,
                   retrievalResult, rerankResult, prompt, llmResult>>
    /\ IF indexExists
       THEN /\ index' = TRUE
            /\ Await("embed", "resolved", <<"embed">>)
       ELSE /\ index' = index
            /\ Await("createIndex", "resolved", <<"createIndex">>)
    /\ UNCHANGED <<raised, caught>>

\* initPinecone: pinecone.createIndex() resolves; the handler sleeps
CreateIndexResolve ==
    /\ pc = "createIndex"
    /\ Await("waitReady", "resolved", <<>>)
    /\ UNCHANGED <<raised, caught>>
    /\ UNCHANGED <<standalone, beside, job, page, env, pinecone, index, cohere, initialized, body, timing,
                   retrievalResult, rerankResult, prompt, llmResult>>

\* initPinecone: the sleep ends, the index handle is taken
IndexReady ==
    /\ pc = "waitReady"
    /\ index' = TRUE
    /\ Await("embed", "resolved", <<"embed">>)
    /\ UNCHANGED <<raised, caught>>
    /\ UNCHANGED <<standalone, beside, job, page, env, pinecone, cohere, initialized, body, timing,
                   retrievalResult, rerankResult, prompt, llmResult>>

\* initPinecone: listIndexes or createIndex rejects
InitReject(e) ==
    /\ pc \in {"listIndexes", "createIndex"}
    /\ Reply(QueryFailed(e, timing), "rejected")
    /\ raised' = e /\ caught' = e
    /\ UNCHANGED <<standalone, beside, job, page, env, pinecone, index, cohere, initialized, body, timing,
                   retrievalResult, rerankResult, prompt, llmResult>>

\* generateQueryEmbedding: the embed call resolves
EmbedResolve(valid) ==
    /\ pc = "embed"
    /\ IF valid
       THEN /\ Await("query", "resolved", <<"query">>)
            /\ caught' = caught
       ELSE /\ caught' = WrapEmbedError(ClassifyEmbedError(InvalidEmbeddingError))
            /\ Reply(QueryFailed(caught', timing), "invalid")
    /\ raised' = raised
    /\ UNCHANGED <<standalone, beside, job, page, env, pinecone, index, cohere, initialized, body, timing,
                   retrievalResult, rerankResult, prompt, llmResult>>

\* generateQueryEmbedding: the embed call rejects
EmbedReject(e) ==
    /\ pc = "embed"
    /\ raised' = e
    /\ caught' = WrapEmbedError(ClassifyEmbedError(e))
    /\ Reply(QueryFailed(caught', timing), "rejected")
    /\ UNCHANGED <<standalone, beside, job, page, env, pinecone, index, cohere, initialized, body, timing,
                   retrievalResult, rerankResult, prompt, llmResult>>

\* queryChunks: index.query resolves; the handler goes on to rerankChunks
QueryResolve(matches) ==
    /\ pc = "query"
    /\ LET chunks == FormatMatches(matches) IN
       /\ retrievalResult' = [chunks |-> chunks]
       /\ timing' = timing \cup {"retrieval"}
       /\ IF NoResults(chunks)
          THEN /\ Reply(NoDocumentsResponse, "resolved")
               /\ cohere' = cohere /\ caught' = caught
          ELSE IF ~cohere /\ ~env["COHERE_API_KEY"]
          THEN /\ Reply(QueryFailed(MissingCohereKey, timing'), "resolved")
               /\ cohere' = cohere /\ caught' = MissingCohereKey
          ELSE /\ Await("rerank", "resolved", <<"rerank">>)
               /\ cohere' = TRUE /\ caught' = caught
    /\ raised' = raised
    /\ UNCHANGED <<standalone, beside, job, page, env, pinecone, index, initialized, body,
                   rerankResult, prompt, llmResult>>

\* a queryChunks that answers a failed index.query with no matches
QueryRejectSwallowed(e) ==
    /\ pc = "query"
    /\ retrievalResult' = [chunks |-> <<>>]
    /\ timing' = timing \cup {"retrieval"}
    /\ Reply(NoDocumentsResponse, "rejected")
    /\ raised' = e /\ caught' = caught
    /\ UNCHANGED <<standalone, beside, job, page, env, pinecone, index, cohere, initialized, body,
                   rerankResult, prompt, llmResult>>

\* queryChunks: index.query rejects
QueryReject(e) ==
    /\ pc = "query"
    /\ raised' = e
    /\ caught' = WrapQueryError(e)
    /\ Reply(QueryFailed(caught', timing), "rejected")
    /\ UNCHANGED <<standalone, beside, job, page, env, pinecone, index, cohere, initialized, body, timing,
                   retrievalResult, rerankResult, prompt, llmResult>>

\* the handler from the return of rerankChunks to the fetch of generateAnswer
AfterRerank(result, how) ==
    /\ rerankResult' = result
    /\ timing' = timing \cup {"rerank"}
    /\ IF ~initialized /\ ~env["OPENROUTER_API_KEY"]
       THEN /\ Reply(QueryFailed(MissingOpenRouterKey, timing'), how)
            /\ caught' = MissingOpenRouterKey
            /\ UNCHANGED <<initialized, prompt, llmResult>>
       ELSE IF Len(result.chunks) = 0
       THEN /\ initialized' = TRUE
            /\ prompt' = prompt
            /\ caught' = caught
            /\ llmResult' = NoContextResult
            /\ Reply(AnswerResponse(body, retrievalResult, result, NoContextResult),
                     how)
       ELSE /\ initialized' = TRUE
            /\ prompt' = ContextParts(result.chunks)
            /\ llmResult' = llmResult
            /\ caught' = caught
            /\ Await("generate", how, <<"generate">>)
    /\ raised' = raised
    /\ UNCHANGED <<standalone, beside, job, page, env, pinecone, index, cohere, body, retrievalResult>>

\* rerankChunks: client.rerank resolves with results
RerankResolve(results) ==
    /\ pc = "rerank"
    /\ AfterRerank(RerankSuccess(retrievalResult.chunks, results), "resolved")

\* rerankChunks: client.rerank rejects, or resolves without a results list
RerankFail ==
    /\ pc = "rerank"
    /\ AfterRerank(RerankFallback(retrievalResult.chunks, TopNOf(body)), "rejected")

\* generateAnswer: the fetch settles; the handler sends the answer
GenerateSettle(o) ==
    /\ pc = "generate"
    /\ LET llm == GenerateResult(body.query.chars, rerankResult.chunks, o) IN
       /\ llmResult' = llm
       /\ Reply(AnswerResponse(body, retrievalResult, rerankResult, llm), o.kind)
    /\ timing' = timing \cup {"generation"}
    /\ UNCHANGED <<raised, caught>>
    /\ UNCHANGED <<standalone, beside, job, page, env, pinecone, index, cohere, initialized, body,
                   retrievalResult, rerankResult, prompt>>

(* ------------------- the routes beside POST /api/query ----------------- *)
\* the handler of another route runs from the request to its response r;
\* after is what is written once r has gone out; the query handler stays
\* idle
Serve(route, r, after) ==
    /\ pc = "idle" /\ served = None
    /\ served' = [route |-> route]
    /\ response' = r
    /\ writes' = <<r>> \o after
    /\ UNCHANGED <<standalone, job, page, env, cohere, initialized, pc, body, timing,
                   retrievalResult, rerankResult, prompt, llmResult, inflight, raised>>

\* an index.deleteAll that leaves the vectors where they are
DeleteNothing(held) == held

\* what index.deleteAll leaves of the vectors held
DeleteAll(held) == {}

ClearedResponse ==
    [status |-> 200,
     payload |-> [success |-> TRUE,
                  message |-> <<"All documents cleared from index">>]]
ClearFailed(e) ==
    [status |-> 500, payload |-> [error |-> "Clear failed", message |-> e.message]]

\* how a call of clearIndex or upsertChunks may go at the provider
ProviderRuns == {"resolved", "initRejected", "rejected"}

\* DELETE /api/upload: clearIndex (initPinecone, then index.deleteAll) and
\* the response
Clear(how) ==
    /\ IF ~(pinecone /\ index) /\ ~env["PINECONE_API_KEY"]
       THEN /\ Serve("clear", ClearFailed(MissingPineconeKey), <<>>)
            /\ caught' = MissingPineconeKey
            /\ calls' = <<>> /\ outcomes' = <<>>
            /\ UNCHANGED <<pinecone, index, store, cleared>>
       ELSE IF how = "initRejected"
       THEN /\ ~(pinecone /\ index)
            /\ Serve("clear", ClearFailed([message |-> <<"e">>]), <<>>)
            /\ caught' = [message |-> <<"e">>]
            /\ calls' = <<"listIndexes">> /\ outcomes' = <<"rejected">>
            /\ pinecone' = TRUE
            /\ UNCHANGED <<index, store, cleared>>
       ELSE IF how = "rejected"
       THEN /\ Serve("clear", ClearFailed([message |-> <<"e">>]), <<>>)
            /\ caught' = [message |-> <<"e">>]
            /\ calls' = <<"deleteAll">> /\ outcomes' = <<"rejected">>
            /\ pinecone' = TRUE /\ index' = TRUE
            /\ UNCHANGED <<store, cleared>>
       ELSE /\ Serve("clear", ClearedResponse, <<>>)
            /\ caught' = None
            /\ calls' = <<"deleteAll">> /\ outcomes' = <<"resolved">>
            /\ pinecone' = TRUE /\ index' = TRUE
            /\ store' = DeleteAll(store)
            /\ cleared' = TRUE

\* the success payload of POST /api/upload, without its details, timing
\* and indexStats
UploadedResponse ==
    [status |-> 200,
     payload |-> [success |-> TRUE,
                  message |-> <<"Document processed and stored successfully">>]]
UploadRateLimited ==
    [status |-> 429, payload |-> [error |-> "Rate limit exceeded", isRateLimit |-> TRUE]]
UploadFailed(e) ==
    [status |-> 500, payload |-> [error |-> "Upload failed", message |-> e.message]]

\* the catch block of POST /api/upload
UploadCaught(e) ==
    IF \/ Has(e, "isRateLimit") /\ e.isRateLimit
       \/ Has(e, "status") /\ e.status = 429
       \/ Includes(e.message, <<"RESOURCE_EXHAUSTED">>)
       \/ Includes(e.message, <<"max tokens per minute">>)
    THEN UploadRateLimited
    ELSE UploadFailed(e)

\* POST /api/upload with a text that passes the validation and gives
\* chunks: upsertChunks and the response; written tells whether a write
\* batch reached the index before the call failed
Upload(how, e, written) ==
    /\ IF ~(pinecone /\ index) /\ ~env["PINECONE_API_KEY"]
       THEN /\ Serve("upload", UploadCaught(MissingPineconeKey), <<>>)
            /\ caught' = MissingPineconeKey
            /\ calls' = <<>> /\ outcomes' = <<>>
            /\ UNCHANGED <<pinecone, index, store, cleared>>
       ELSE IF how = "initRejected"
       THEN /\ ~(pinecone /\ index)
            /\ Serve("upload", UploadCaught(e), <<>>)
            /\ caught' = e
            /\ calls' = <<"listIndexes">> /\ outcomes' = <<"rejected">>
            /\ pinecone' = TRUE
            /\ UNCHANGED <<index, store, cleared>>
       ELSE IF how = "rejected"
       THEN /\ Serve("upload", UploadCaught(IF written THEN e ELSE ClassifyBatchError(e)),
                     <<>>)
            /\ caught' = IF written THEN e ELSE ClassifyBatchError(e)
            /\ calls' = <<"upsert">> /\ outcomes' = <<"rejected">>
            /\ pinecone' = TRUE /\ index' = TRUE
            /\ store' = IF written THEN StoredIds ELSE store
            /\ cleared' = (cleared /\ ~written)
       ELSE /\ Serve("upload", UploadedResponse, <<>>)
            /\ caught' = None
            /\ calls' = <<"upsert">> /\ outcomes' = <<"resolved">>
            /\ pinecone' = TRUE /\ index' = TRUE
            /\ store' = StoredIds
            /\ cleared' = FALSE

\* the early returns of POST /api/upload
UploadRefusals ==
    { BadRequest("Missing or invalid text",
                 "Please provide a \"text\" field with the document content"),
      BadRequest("Text too short", "Please provide at least 50 characters of text"),
      BadRequest("No chunks created", "The text could not be chunked properly") }

\* POST /api/upload with a text that is refused before upsertChunks
UploadRefused(r) ==
    /\ Serve("upload", r, <<>>)
    /\ UNCHANGED <<pinecone, index, store, cleared, calls, outcomes, caught>>

\* the services object of GET /api/health and the checks of /ready
Configured(k) == IF env[k] THEN "configured" ELSE "missing_key"
HealthResponse ==
    LET services == [pinecone |-> Configured("PINECONE_API_KEY"),
                     cohere |-> Configured("COHERE_API_KEY"),
                     gemini |-> Configured("GEMINI_API_KEY")]
        missingServices == {n \in DOMAIN services : services[n] = "missing_key"}
    IN  [status |-> 200,
         payload |-> IF missingServices # {}
                     THEN [status |-> "degraded", services |-> services,
                           warnings |-> missingServices]
                     ELSE [status |-> "ok", services |-> services]]
ReadyResponse ==
    LET checks == [pinecone |-> env["PINECONE_API_KEY"],
                   cohere |-> env["COHERE_API_KEY"],
                   gemini |-> env["GEMINI_API_KEY"]]
        allReady == \A n \in DOMAIN checks : checks[n]
    IN  IF allReady
        THEN [status |-> 200, payload |-> [ready |-> TRUE, checks |-> checks]]
        ELSE [status |-> 503, payload |-> [ready |-> FALSE, checks |-> checks]]

\* GET /api/health
Health ==
    /\ Serve("health", HealthResponse, <<>>)
    /\ UNCHANGED <<pinecone, index, store, cleared, calls, outcomes, caught>>

\* GET /api/health/ready
Ready ==
    /\ Serve("ready", ReadyResponse, <<>>)
    /\ UNCHANGED <<pinecone, index, store, cleared, calls, outcomes, caught>>

\* what body-parser hands to next() when the verify hook threw
VerifyFailed == [message |-> <<"Invalid JSON">>, status |-> 403,
                 type |-> "entity.verify.failed", name |-> "Error"]

\* the response the global error handler writes for err
ErrorHandler(err) ==
    IF err.name = "SyntaxError" /\ err.status = 400
    THEN BadRequest("Bad Request", "Invalid JSON in request body")
    ELSE IF err.type = "entity.too.large"
    THEN [status |-> 413,
          payload |-> [error |-> "Payload Too Large",
                       message |-> "Request body exceeds the 10MB limit"]]
    ELSE [status |-> OrNum(err.status, 500),
          payload |-> [error |-> err.name, message |-> err.message]]

\* a request whose body is not JSON: the verify hook of express.json
\* answers 400 and throws, body-parser passes the error on and the global
\* error handler answers again
PostInvalidJson ==
    /\ Serve("json",
             [status |-> 400,
              payload |-> [error |-> "Invalid JSON", message |-> <<"e">>]],
             <<ErrorHandler(VerifyFailed)>>)
    /\ caught' = VerifyFailed
    /\ UNCHANGED <<pinecone, index, store, cleared, calls, outcomes>>

\* the response has gone out and the handler's locals are dropped; the
\* module-level handles stay
Return ==
    /\ pc = "done" \/ served # None
    /\ pc' = "idle"
    /\ served' = None
    /\ writes' = <<>>
    /\ body' = None
    /\ timing' = {}
    /\ retrievalResult' = None /\ rerankResult' = None
    /\ prompt' = None /\ llmResult' = None
    /\ response' = None
    /\ calls' = <<>>
    /\ outcomes' = <<>>
    /\ inflight' = {}
    /\ raised' = None /\ caught' = None
    /\ UNCHANGED <<standalone, store, cleared, job, page,
                   env, pinecone, index, cohere, initialized>>

\* what the providers may answer to the call in flight
QueryAnswers ==
    IF pc = "query" THEN MatchListsOf(store, TopKOf(body)) ELSE {}
RerankAnswers ==
    IF pc = "rerank" THEN RerankResponses(retrievalResult.chunks, TopNOf(body)) ELSE {}

Next ==
    \/ \E b \in Bodies : Post(b)
    \/ Return
    \/ \E x \in BOOLEAN : ListIndexesResolve(x)
    \/ CreateIndexResolve
    \/ IndexReady
    \/ \E e \in PineconeErrors : InitReject(e)
    \/ \E v \in BOOLEAN : EmbedResolve(v)
    \/ \E e \in PineconeErrors : EmbedReject(e)
    \/ \E m \in QueryAnswers : QueryResolve(m)
    \/ \E e \in PineconeErrors : QueryReject(e)
    \/ \E r \in RerankAnswers : RerankResolve(r)
    \/ RerankFail
    \/ \E o \in GenerationOutcomes : GenerateSettle(o)
    \/ \E how \in ProviderRuns : Clear(how)
    \/ \E how \in ProviderRuns, e \in PineconeErrors, written \in BOOLEAN :
           Upload(how, e, written)
    \/ \E r \in UploadRefusals : UploadRefused(r)
    \/ Health
    \/ Ready
    \/ PostInvalidJson

Spec == Init /\ [][Next]_vars

(* ------------- pinecone.js: initPinecone entered concurrently ---------- *)
\* the state of the request handler, idle in this specification
handler == <<cohere, initialized, pc, body, timing, retrievalResult,
             rerankResult, prompt, llmResult, response, calls, outcomes,
             inflight, raised, caught, beside, writes, job, page>>

HandlerIdle ==
    /\ cohere = FALSE /\ initialized = FALSE
    /\ pc = "idle" /\ body = None /\ timing = {}
    /\ retrievalResult = None /\ rerankResult = None
    /\ prompt = None /\ llmResult = None /\ response = None
    /\ calls = <<>> /\ outcomes = <<>> /\ inflight = {}
    /\ raised = None /\ caught = None
    /\ store = StoredIds /\ cleared = FALSE
    /\ served = None /\ writes = <<>>
    /\ job = None
    /\ PageIdle

\* the provider refuses to create an index whose name is taken
IndexConflict == [message |-> <<"ALREADY_EXISTS">>, status |-> 409]

InitInit ==
    /\ env \in StandaloneEnvironments
    /\ pinecone = FALSE /\ index = FALSE
    /\ remote \in BOOLEAN
    /\ callers \in {[c \in 1..n |-> "start"] : n \in 1..MaxCallers}
    /\ clients = 0 /\ creates = 0
    /\ args = None /\ returned = None
    /\ HandlerIdle

\* a caller runs initPinecone up to its first await
InitPineconeEnter(c) ==
    /\ callers[c] = "start"
    /\ IF pinecone /\ index
       THEN /\ callers' = [callers EXCEPT ![c] = "done"]
            /\ UNCHANGED <<pinecone, clients>>
       ELSE IF ~env["PINECONE_API_KEY"]
       THEN /\ callers' = [callers EXCEPT ![c] = "failed"]
            /\ UNCHANGED <<pinecone, clients>>
       ELSE /\ pinecone' = TRUE
            /\ clients' = clients + 1
            /\ callers' = [callers EXCEPT ![c] = "listIndexes"]
    /\ UNCHANGED <<env, index, creates, remote, args, returned, handler>>

\* the caller's listIndexes resolves; createIndex is issued if the name is
\* not listed
InitPineconeListed(c) ==
    /\ callers[c] = "listIndexes"
    /\ IF remote
       THEN /\ index' = TRUE
            /\ callers' = [callers EXCEPT ![c] = "done"]
            /\ creates' = creates
       ELSE /\ index' = index
            /\ callers' = [callers EXCEPT ![c] = "createIndex"]
            /\ creates' = creates + 1
    /\ UNCHANGED <<env, pinecone, clients, remote, args, returned, handler>>

\* the caller's createIndex settles; a rejection is thrown on by the catch
InitPineconeCreated(c) ==
    /\ callers[c] = "createIndex"
    /\ IF remote
       THEN /\ callers' = [callers EXCEPT ![c] = "failed"]
            /\ remote' = remote
       ELSE /\ callers' = [callers EXCEPT ![c] = "waitReady"]
            /\ remote' = TRUE
    /\ UNCHANGED <<env, pinecone, index, clients, creates, args, returned, handler>>

\* the caller's 60 second wait ends and it takes the index handle
InitPineconeReady(c) ==
    /\ callers[c] = "waitReady"
    /\ index' = TRUE
    /\ callers' = [callers EXCEPT ![c] = "done"]
    /\ UNCHANGED <<env, pinecone, clients, creates, remote, args, returned, handler>>

InitNext ==
    \/ \E c \in DOMAIN callers : InitPineconeEnter(c)
    \/ \E c \in DOMAIN callers : InitPineconeListed(c)
    \/ \E c \in DOMAIN callers : InitPineconeCreated(c)
    \/ \E c \in DOMAIN callers : InitPineconeReady(c)

InitSpec == InitInit /\ [][InitNext]_vars

(* ------------- pinecone.js: upsertChunks called on its own ------------- *)
EmbedBatchSize == 10
UpsertBatchSize == 100
IndexName == "rag-assessment"
EmbeddingModel == "llama-text-embed-v2"

\* the variables upsertChunks does not touch
besideUpsert == <<cohere, initialized, pc, body, timing, retrievalResult,
                  rerankResult, prompt, llmResult, response, raised, caught,
                  callers, clients, creates, remote, cleared, served, writes, page>>

\* a slice that runs to the end of the array
SliceToEnd(i, batchSize, n) == n

\* where array.slice(i, i + batchSize) ends in an array of n elements
SliceEnd(i, batchSize, n) == Min(i + batchSize, n)

\* the provider call for the elements i (counted from 0) up to the end of
\* their batch
Batch(op, i, batchSize, n) ==
    [op |-> op, from |-> i, to |-> SliceEnd(i, batchSize, n)]

\* the environments that differ in what initPinecone reads
UpsertEnvironments ==
    {e \in [EnvKeys -> BOOLEAN] : \A k \in EnvKeys \ {"PINECONE_API_KEY"} : e[k]}

UpsertInit ==
    /\ env \in UpsertEnvironments
    /\ pinecone \in BOOLEAN /\ index = pinecone
    /\ store = {}
    /\ args \in {[chunks |-> n] : n \in 0..MaxChunks}
    /\ returned = None /\ job = None
    /\ calls = <<>> /\ outcomes = <<>> /\ inflight = {}
    /\ cohere = FALSE /\ initialized = FALSE
    /\ pc = "idle" /\ body = None /\ timing = {}
    /\ retrievalResult = None /\ rerankResult = None
    /\ prompt = None /\ llmResult = None /\ response = None
    /\ raised = None /\ caught = None
    /\ callers = <<>> /\ clients = 0 /\ creates = 0 /\ remote = FALSE
    /\ cleared = FALSE /\ served = None /\ writes = <<>>
    /\ PageIdle

\* the call in calls is issued and awaited
Issue(call) ==
    /\ calls' = Append(calls, call)
    /\ inflight' = {call}

\* the awaited call settles as how
Settle(how) ==
    /\ outcomes' = Append(outcomes, how)

\* upsertChunks from its entry to the first embed call of generateEmbeddings
\* (initPinecone is taken to succeed when the key is set)
UpsertChunksCall ==
    /\ job = None /\ returned = None
    /\ IF ~(pinecone /\ index) /\ ~env["PINECONE_API_KEY"]
       THEN /\ returned' = [thrown |-> MissingPineconeKey]
            /\ UNCHANGED <<pinecone, index, job, calls, inflight>>
       ELSE /\ pinecone' = TRUE /\ index' = TRUE
            /\ job' = [i |-> 0, embeddings |-> 0, upsertedCount |-> 0]
            /\ IF 0 < args.chunks
               THEN /\ Issue(Batch("embed", 0, EmbedBatchSize, args.chunks))
                    /\ returned' = returned
               ELSE /\ returned' = [value |-> [upsertedCount |-> 0,
                                               indexName |-> IndexName,
                                               embeddingModel |-> EmbeddingModel]]
                    /\ UNCHANGED <<calls, inflight>>
    /\ UNCHANGED <<env, args, store, outcomes, besideUpsert>>

\* pinecone.inference.embed resolves with one embedding for each text of
\* the batch; the next batch is embedded, or the first batch is written
EmbedBatchResolve ==
    /\ \E call \in inflight :
          /\ call.op = "embed"
          /\ Settle("resolved")
          /\ LET i == job.i + EmbedBatchSize
                 embeddings == job.embeddings + (call.to - call.from)
             IN  IF i < args.chunks
                 THEN /\ job' = [job EXCEPT !.i = i, !.embeddings = embeddings]
                      /\ Issue(Batch("embed", i, EmbedBatchSize, args.chunks))
                 ELSE /\ job' = [job EXCEPT !.i = 0, !.embeddings = embeddings]
                      /\ Issue(Batch("upsert", 0, UpsertBatchSize, args.chunks))
    /\ UNCHANGED <<env, pinecone, index, args, returned, store, besideUpsert>>

\* pinecone.inference.embed rejects
EmbedBatchReject(e) ==
    /\ \E call \in inflight : call.op = "embed"
    /\ Settle("rejected")
    /\ inflight' = {}
    /\ returned' = [thrown |-> ClassifyBatchError(e)]
    /\ UNCHANGED <<env, pinecone, index, args, job, calls, store, besideUpsert>>

\* index.upsert resolves: the provider holds the records of the batch
UpsertBatchResolve ==
    /\ \E call \in inflight :
          /\ call.op = "upsert"
          /\ Settle("resolved")
          /\ store' = store \cup (call.from + 1)..call.to
          /\ LET i == job.i + UpsertBatchSize
                 upsertedCount == job.upsertedCount + (call.to - call.from)
             IN  /\ job' = [job EXCEPT !.i = i, !.upsertedCount = upsertedCount]
                 /\ IF i < args.chunks
                    THEN /\ Issue(Batch("upsert", i, UpsertBatchSize, args.chunks))
                         /\ returned' = returned
                    ELSE /\ inflight' = {}
                         /\ calls' = calls
                         /\ returned' = [value |-> [upsertedCount |-> upsertedCount,
                                                    indexName |-> IndexName,
                                                    embeddingModel |-> EmbeddingModel]]
    /\ UNCHANGED <<env, pinecone, index, args, besideUpsert>>

\* index.upsert rejects: the provider has stored nothing of the batch
UpsertBatchReject(e) ==
    /\ \E call \in inflight : call.op = "upsert"
    /\ Settle("rejected")
    /\ inflight' = {}
    /\ returned' = [thrown |-> e]
    /\ UNCHANGED <<env, pinecone, index, args, job, calls, store, besideUpsert>>

UpsertNext ==
    \/ UpsertChunksCall
    \/ EmbedBatchResolve
    \/ \E e \in PineconeErrors : EmbedBatchReject(e)
    \/ UpsertBatchResolve
    \/ \E e \in PineconeErrors : UpsertBatchReject(e)

UpsertSpec == UpsertInit /\ [][UpsertNext]_vars

(* ------------- reranker.js: rerankChunks called on its own ------------- *)
\* the variables rerankChunks does not touch
besideRerank == <<pinecone, index, initialized, pc, body, timing,
                  retrievalResult, rerankResult, prompt, llmResult, response,
                  outcomes, raised, caught, callers, clients, creates, remote,
                  beside, writes, job, page>>

\* the arguments of a call: a candidate list, or none, and a topN
RerankArgs ==
    { c @@ [topN |-> n] :
        c \in {<<>>} \cup {[chunks |-> FormatMatches(m)] : m \in MatchLists(MaxMatches)},
        n \in TopNValues \cup {DefaultTopN} }

\* the return for no candidates
NoCandidatesResult == [chunks |-> <<>>, duration |-> 0]

RerankInit ==
    /\ env \in StandaloneEnvironments
    /\ cohere = FALSE
    /\ args = None /\ returned = None
    /\ calls = <<>> /\ inflight = {}
    /\ pinecone = FALSE /\ index = FALSE /\ initialized = FALSE
    /\ pc = "idle" /\ body = None /\ timing = {}
    /\ retrievalResult = None /\ rerankResult = None
    /\ prompt = None /\ llmResult = None /\ response = None
    /\ outcomes = <<>> /\ raised = None /\ caught = None
    /\ callers = <<>> /\ clients = 0 /\ creates = 0 /\ remote = FALSE
    /\ store = StoredIds /\ cleared = FALSE
    /\ served = None /\ writes = <<>>
    /\ job = None
    /\ PageIdle

\* rerankChunks from its entry to its first await or its return
RerankChunksCall(a) ==
    /\ args = None
    /\ args' = a
    /\ IF ~cohere /\ ~env["COHERE_API_KEY"]
       THEN /\ returned' = [thrown |-> MissingCohereKey]
            /\ UNCHANGED <<cohere, calls, inflight>>
       ELSE /\ cohere' = TRUE
            /\ IF ~Has(a, "chunks") \/ Len(a.chunks) = 0
               THEN /\ returned' = [value |-> NoCandidatesResult]
                    /\ UNCHANGED <<calls, inflight>>
               ELSE /\ returned' = None
                    /\ calls' = Append(calls, "rerank")
                    /\ inflight' = {"rerank"}
    /\ UNCHANGED <<env, besideRerank>>

\* client.rerank resolves with results
RerankChunksResolve(results) ==
    /\ inflight = {"rerank"}
    /\ returned' = [value |-> RerankSuccess(args.chunks, results)]
    /\ inflight' = {}
    /\ UNCHANGED <<env, cohere, args, calls, besideRerank>>

\* client.rerank rejects
RerankChunksReject ==
    /\ inflight = {"rerank"}
    /\ returned' = [value |-> RerankFallback(args.chunks, args.topN)]
    /\ inflight' = {}
    /\ UNCHANGED <<env, cohere, args, calls, besideRerank>>

\* the caller has its result; the client handle stays
RerankChunksDone ==
    /\ returned # None
    /\ args' = None /\ returned' = None
    /\ calls' = <<>>
    /\ UNCHANGED <<env, cohere, inflight, besideRerank>>

\* what the provider may answer to the call in flight
RerankChunksAnswers ==
    IF inflight = {"rerank"} THEN RerankResponses(args.chunks, args.topN) ELSE {}

RerankNext ==
    \/ \E a \in RerankArgs : RerankChunksCall(a)
    \/ \E r \in RerankChunksAnswers : RerankChunksResolve(r)
    \/ RerankChunksReject
    \/ RerankChunksDone

RerankSpec == RerankInit /\ [][RerankNext]_vars

(* ----------------------------- chunker.js ------------------------------ *)
\* The chunker's text is written run by run: a run is a number of
\* consecutive characters of one class, and neighbouring runs differ in
\* class.  The classes are "a" (a lower-case letter), "A" (a character that
\* toUpperCase leaves alone and that is none of the following), "." (one of
\* . ! ?), " " (white space) and "#".  A literal of the source is one run
\* whose class is the literal.
MinChunkSize == 800
MaxChunkSize == 1200
OverlapPercent == 12
CharsPerToken == 4
HeaderLengthLimit == 80

Run(c, n) == [class |-> c, n |-> n]

\* String.prototype.length
RECURSIVE TextLength(_)
TextLength(t) == IF t = <<>> THEN 0 ELSE Head(t).n + TextLength(Tail(t))

\* string concatenation
Concat(s, t) ==
    IF s = <<>> THEN t
    ELSE IF t = <<>> THEN s
    ELSE IF s[Len(s)].class = t[1].class
    THEN SubSeq(s, 1, Len(s) - 1) \o <<Run(t[1].class, s[Len(s)].n + t[1].n)>> \o Tail(t)
    ELSE s \o t

\* an estimate that rounds down
EstimateTokensFloor(t) == TextLength(t) \div CharsPerToken

EstimateTokens(t) == CeilDiv(TextLength(t), CharsPerToken)

\* String.prototype.trim
TrimRuns(t) ==
    LET solid == {i \in 1..Len(t) : t[i].class # " "} IN
    IF solid = {} THEN <<>>
    ELSE SubSeq(t, CHOOSE i \in solid : \A j \in solid : i <= j,
                   CHOOSE i \in solid : \A j \in solid : j <= i)

\* text.split(/(?<=[.!?])\s+/)
RECURSIVE SplitAfterStops(_)
SplitAfterStops(t) ==
    LET cuts == {i \in 1..(Len(t) - 1) : t[i].class = "." /\ t[i + 1].class = " "} IN
    IF cuts = {} THEN <<t>>
    ELSE LET i == CHOOSE c \in cuts : \A d \in cuts : c <= d IN
         <<SubSeq(t, 1, i)>> \o SplitAfterStops(SubSeq(t, i + 2, Len(t)))

SplitIntoSentences(t) ==
    SelectSeq(SplitAfterStops(t), LAMBDA x : TextLength(TrimRuns(x)) > 0)

\* currentChunk.join(' ')
RECURSIVE Join(_)
Join(sentences) ==
    IF sentences = <<>> THEN <<>>
    ELSE IF Len(sentences) = 1 THEN sentences[1]
    ELSE Concat(Concat(Join(SubSeq(sentences, 1, Len(sentences) - 1)), <<Run(" ", 1)>>),
                sentences[Len(sentences)])

TargetChunkTokens == (MinChunkSize + MaxChunkSize) \div 2
OverlapTokens == (TargetChunkTokens * OverlapPercent) \div 100

ContentSection == <<Run("Content", 7)>>
UserUpload == <<"user_upload">>
UntitledDocument == <<"Untitled Document">>

\* sentence.match(/^#+\s+/)
MarkdownHeader(sentence) ==
    Len(sentence) >= 2 /\ sentence[1].class = "#" /\ sentence[2].class = " "

\* sentence === sentence.toUpperCase()
IsUpperCase(sentence) == \A i \in 1..Len(sentence) : sentence[i].class # "a"

IsHeader(sentence) ==
    \/ MarkdownHeader(sentence)
    \/ TextLength(sentence) < HeaderLengthLimit /\ IsUpperCase(sentence)

\* sentence.replace(/^#+\s+/, '').trim()
HeaderLabel(sentence) ==
    TrimRuns(IF MarkdownHeader(sentence)
             THEN SubSeq(sentence, 3, Len(sentence)) ELSE sentence)

\* currentSection after the first k sentences
RECURSIVE SectionAfter(_, _)
SectionAfter(sentences, k) ==
    IF k = 0 THEN ContentSection
    ELSE IF IsHeader(sentences[k]) THEN HeaderLabel(sentences[k])
    ELSE SectionAfter(sentences, k - 1)

\* sectionMap.get(sentence): the value set for it last
SectionMapGet(sentences, sentence) ==
    LET at == {k \in 1..Len(sentences) : sentences[k] = sentence} IN
    SectionAfter(sentences, CHOOSE k \in at : \A j \in at : j <= k)

\* the chunk pushed for the sentences of currentChunk
MakeChunk(sentences, metadata, currentChunk, chunkPosition) ==
    LET chunkText == Join(currentChunk) IN
    [text |-> chunkText,
     metadata |->
        [source |-> IF Has(metadata, "source") THEN OrStr(metadata.source, UserUpload)
                    ELSE UserUpload,
         title |-> IF Has(metadata, "title") THEN OrStr(metadata.title, UntitledDocument)
                   ELSE UntitledDocument,
         section |-> OrStr(SectionMapGet(sentences, currentChunk[1]), ContentSection),
         position |-> chunkPosition,
         tokenEstimate |-> EstimateTokens(chunkText),
         charCount |-> TextLength(chunkText)]]

\* a chunker that carries nothing over
NoOverlap(currentChunk, j, buffer, count) == [buffer |-> <<>>, tokens |-> 0]

\* the loop that fills overlapBuffer, from index j down
RECURSIVE Overlap(_, _, _, _)
Overlap(currentChunk, j, buffer, count) ==
    IF j >= 1 /\ count < OverlapTokens
    THEN Overlap(currentChunk, j - 1, <<currentChunk[j]>> \o buffer,
                 count + EstimateTokens(currentChunk[j]))
    ELSE [buffer |-> buffer, tokens |-> count]

\* a counter that stays where it is
SamePosition(chunkPosition) == chunkPosition

\* chunkPosition++
NextPosition(chunkPosition) == chunkPosition + 1

\* the main loop from sentence i on; st holds chunks, currentChunk,
\* currentTokens and chunkPosition
RECURSIVE ChunkLoop(_, _, _, _)
ChunkLoop(sentences, metadata, i, st) ==
    IF i > Len(sentences) THEN st
    ELSE LET sentence == sentences[i]
             sentenceTokens == EstimateTokens(sentence)
             closing == /\ st.currentTokens + sentenceTokens > MaxChunkSize
                        /\ Len(st.currentChunk) > 0
             seed == Overlap(st.currentChunk, Len(st.currentChunk), <<>>, 0)
             closed ==
                 IF closing
                 THEN [chunks |-> Append(st.chunks,
                                         MakeChunk(sentences, metadata,
                                                   st.currentChunk, st.chunkPosition)),
                       currentChunk |-> seed.buffer,
                       currentTokens |-> seed.tokens,
                       chunkPosition |-> NextPosition(st.chunkPosition)]
                 ELSE st
         IN  ChunkLoop(sentences, metadata, i + 1,
                       [closed EXCEPT !.currentChunk = Append(closed.currentChunk, sentence),
                                      !.currentTokens = closed.currentTokens + sentenceTokens])

\* a chunker that forgets the working chunk left by the loop
LastChunkForgotten(sentences, metadata, st) == st.chunks

\* the push of the last chunk after the loop
LastChunk(sentences, metadata, st) ==
    IF Len(st.currentChunk) > 0
    THEN Append(st.chunks,
                MakeChunk(sentences, metadata, st.currentChunk, st.chunkPosition))
    ELSE st.chunks

ChunkText(text, metadata) ==
    LET sentences == SplitIntoSentences(text) IN
    IF Len(sentences) = 0 THEN <<>>
    ELSE LastChunk(sentences, metadata,
                   ChunkLoop(sentences, metadata, 1,
                             [chunks |-> <<>>, currentChunk |-> <<>>,
                              currentTokens |-> 0, chunkPosition |-> 0]))

(* ---------------- chunker.js: chunkText called on its own -------------- *)
\* sentences of 60, 500, 700 and 1201 estimated tokens, a markdown header
\* and an upper-case header
SentencePool ==
    { <<Run("a", 239), Run(".", 1)>>,
      <<Run("a", 1999), Run(".", 1)>>,
      <<Run("a", 2799), Run(".", 1)>>,
      <<Run("a", 4800), Run(".", 1)>>,
      <<Run("#", 1), Run(" ", 1), Run("A", 2), Run(".", 1)>>,
      <<Run("A", 3), Run(".", 1)>> }

\* documents of up to n sentences of the pool, one blank between sentences
RECURSIVE Documents(_)
Documents(n) ==
    IF n = 0 THEN {<<>>}
    ELSE LET shorter == Documents(n - 1) IN
         shorter \cup {Join(<<d, x>>) : d \in shorter \ {<<>>}, x \in SentencePool}
                 \cup SentencePool

ShortLength == 60
RunLengths == {1, 2, 4, 5, 28, 29, 30, 55, 56, 57, 58, 59, 60}

\* the texts of n characters of at most k runs, the run before them being
\* of class last
RECURSIVE TextsOfLength(_, _, _)
TextsOfLength(n, k, last) ==
    IF n = 0 THEN {<<>>}
    ELSE IF k = 0 THEN {}
    ELSE UNION { {<<Run(c, l)>> \o t : t \in TextsOfLength(n - l, k - 1, c)} :
                 c \in {"a", ".", " "} \ {last}, l \in {x \in RunLengths : x <= n} }

ChunkArgs ==
    { [text |-> t, metadata |-> m] :
        t \in Documents(MaxSentences) \cup TextsOfLength(ShortLength, MaxRuns, "#"),
        m \in { <<>>, [source |-> <<"s">>, title |-> <<>>] } }

ChunkInit ==
    /\ args \in ChunkArgs
    /\ returned = None
    /\ env \in [EnvKeys -> {TRUE}]
    /\ pinecone = FALSE /\ index = FALSE
    /\ callers = <<>> /\ clients = 0 /\ creates = 0 /\ remote = FALSE
    /\ HandlerIdle

\* chunkText runs to its return
ChunkTextCall ==
    /\ returned = None
    /\ returned' = [value |-> ChunkText(args.text, args.metadata)]
    /\ UNCHANGED <<env, pinecone, index, args, callers, clients, creates, remote, handler>>

ChunkNext == ChunkTextCall

ChunkSpec == ChunkInit /\ [][ChunkNext]_vars

(* ---------------------- app.js: the query panel ------------------------ *)
\* the variables the page does not touch
besidePage == <<env, pinecone, index, cohere, initialized, pc, body, timing,
                retrievalResult, rerankResult, prompt, llmResult, response,
                calls, outcomes, inflight, raised, caught, standalone,
                beside, writes, job>>

\* how the fetch of a query may end: a success payload, a payload without
\* success, or safeFetch throwing
FetchResults == {"success", "unsuccessful", "thrown"}

FrontInit ==
    /\ env \in [EnvKeys -> {TRUE}]
    /\ pinecone = FALSE /\ index = FALSE
    /\ args = None /\ returned = None
    /\ callers = <<>> /\ clients = 0 /\ creates = 0 /\ remote = FALSE
    /\ HandlerIdle

\* queryDocuments with a non-empty query, up to its await of safeFetch
QueryDocuments ==
    /\ submitted < MaxQueries
    /\ submitted' = submitted + 1
    /\ pending' = pending \cup {submitted + 1}
    /\ loadingOverlay' = TRUE
    /\ queryBtn' = [disabled |-> TRUE]
    /\ answerContent' = answerContent
    /\ UNCHANGED besidePage

\* the click listener of the query button; a disabled button gets no click
ClickQuery ==
    /\ ~queryBtn.disabled
    /\ QueryDocuments

\* the keypress listener of the query input
PressEnter(key) ==
    /\ key = "Enter"
    /\ QueryDocuments

\* queryDocuments from the settling of the fetch of query q to its end:
\* displayResults or the catch block, then the finally block
FetchSettles(q, result) ==
    /\ q \in pending
    /\ pending' = pending \ {q}
    /\ answerContent' = [query |-> q,
                         shows |-> IF result = "success" THEN "answer" ELSE "error"]
    /\ loadingOverlay' = FALSE
    /\ queryBtn' = [disabled |-> FALSE]
    /\ submitted' = submitted
    /\ UNCHANGED besidePage

FrontNext ==
    \/ ClickQuery
    \/ \E key \in {"Enter", "a"} : PressEnter(key)
    \/ \E q \in 1..MaxQueries, result \in FetchResults : FetchSettles(q, result)

FrontSpec == FrontInit /\ [][FrontNext]_vars

(* ------------------------------ claims --------------------------------- *)
\* the stage calls of a request, without the calls of initPinecone
StageCalls == SelectSeq(calls, LAMBDA c : c \in {"embed", "query", "rerank", "generate"})
Retrieved == Has(retrievalResult, "chunks")
Reranked == Has(rerankResult, "chunks")

\* C1: once retrieval has produced at least one match, the request ends with
\* an HTTP-success answer payload (answer, citations, sources, timing),
\* whatever the rerank stage and the generation stage do afterwards, a
\* missing provider credential included.
C1_AnswerOnceRetrieved ==
    (pc = "done" /\ Retrieved /\ Len(retrievalResult.chunks) > 0)
        => /\ response.status = 200
           /\ {"answer", "citations", "sources", "timing"}
                  \subseteq DOMAIN response.payload

\* C2: generateAnswer never rejects: whenever the handler has called it (it
\* does so as soon as rerankChunks has returned), it resolved with an
\* answer payload.
C2_GenerateNeverRejects ==
    (pc = "done" /\ Reranked) => Has(llmResult, "answer")

\* C3: every degraded request (rerank fell back, or the generation result
\* carries an error tag) is answered with HTTP success and its payload
\* holds a flag of the rerank fallback and a flag of the generation failure.
C3_DegradedIsFlagged ==
    pc = "done" =>
        /\ Has(rerankResult, "fallback") =>
               /\ response.status = 200
               /\ response.payload.metadata.rerankFallback
        /\ Has(llmResult, "error") =>
               /\ response.status = 200
               /\ \/ Has(response.payload, "error")
                  \/ Has(response.payload.metadata, "error")

IsPrefix(p, t) == Len(p) <= Len(t) /\ SubSeq(t, 1, Len(p)) = p
Answered == pc = "done" /\ response.status = 200
StageOrder == <<"embed", "query", "rerank", "generate">>

\* the citations of the response agree with its sources and with the
\* prompt, the citation text standing in relation TextOk to the chunk text
CitationsAgree(TextOk(_, _)) ==
    LET cits == response.payload.citations
        srcs == response.payload.sources
    IN  /\ Len(srcs) = IF Reranked THEN Len(rerankResult.chunks) ELSE 0
        /\ \A i \in 1..Len(cits) : cits[i].number \in 1..Len(srcs)
        /\ \A i, j \in 1..Len(cits) : i # j => cits[i].number # cits[j].number
        /\ \A i \in 1..Len(cits) :
              LET k == cits[i].number
                  tag == prompt[k].citation
              IN  /\ srcs[k].number = k
                  /\ cits[i].source = srcs[k].title
                  /\ cits[i].section = srcs[k].section
                  /\ TextOk(cits[i].text, srcs[k].text)
                  /\ ParseInt(SubSeq(tag, 2, Len(tag) - 1)) = k
                  /\ cits[i].source = prompt[k].title
                  /\ cits[i].section = prompt[k].section
                  /\ TextOk(cits[i].text, prompt[k].text)

\* the preview of a text: the text itself up to 200 characters, else its
\* first 200 characters and an ellipsis
IsPreview(p, t) ==
    IF Len(t) <= 200 THEN p = t
    ELSE p = SubSeq(t, 1, 200) \o <<".", ".", ".">>

\* C4 as stated: in every query response each citation has a number in
\* 1..N (N the number of returned sources), no two citations share a
\* number, and citation k describes source k and the chunk tagged [k] in the
\* prompt: same title and section, citation text a prefix of the chunk text.
C4_CitationTextIsPrefix ==
    Answered => CitationsAgree(IsPrefix)

\* C4 amended: as C4, with the citation text being the chunk's text when
\* that has at most 200 characters and otherwise its first 200 characters
\* followed by "...".
C4_CitationsMatchSources ==
    Answered => CitationsAgree(IsPreview)

\* an answer citing a chunk longer than the preview, next to a marker
\* that names no source
C4_Witness ==
    /\ Answered
    /\ \E i \in 1..Len(response.payload.citations) :
          Len(response.payload.sources[response.payload.citations[i].number].text) > 200
    /\ \E m \in Range(CitationMatches(response.payload.answer, 1)) :
          ParseInt(m) > Len(response.payload.sources)

\* C5: for every generated answer, every bracket-number marker [n] present
\* in the returned answer text has an entry with number n in the returned
\* citations list.
C5_EveryMarkerCited ==
    (Answered /\ Has(llmResult, "answer") /\ ~Has(llmResult, "error")) =>
        \A m \in Range(CitationMatches(response.payload.answer, 1)) :
            \E i \in 1..Len(response.payload.citations) :
                response.payload.citations[i].number = ParseInt(m)

\* C6: within one request the stage calls are issued in the order embed,
\* query, rerank, generate, each at most once and only after the previous
\* call has settled: at most one call is in flight, it is the last one
\* issued, and the calls issued so far are a prefix of the stage order.
C6_StagesSequential ==
    /\ Cardinality(inflight) <= 1
    /\ inflight # {} => inflight = {calls[Len(calls)]}
    /\ Len(outcomes) + Cardinality(inflight) = Len(calls)
    /\ IsPrefix(StageCalls, StageOrder)

\* the generation call in flight after the three earlier stages settled
C6_Witness ==
    /\ pc = "generate"
    /\ StageCalls = StageOrder
    /\ inflight = {"generate"}

\* C7: when retrieval returns zero matches the request is answered with
\* success, the fixed no-documents answer, no sources, no citations,
\* noDocuments=true and a timing of retrieval and total time only, and
\* neither the rerank provider nor the generation provider is called.
C7_NoMatchesShortCircuit ==
    (Retrieved /\ Len(retrievalResult.chunks) = 0) =>
        /\ pc = "done"
        /\ response.status = 200
        /\ response.payload.success
        /\ response.payload.answer = NoDocumentsAnswer
        /\ response.payload.sources = <<>>
        /\ response.payload.citations = <<>>
        /\ Has(response.payload, "noDocuments") /\ response.payload.noDocuments
        /\ response.payload.timing = {"totalMs", "retrievalMs"}
        /\ Range(calls) \cap {"rerank", "generate"} = {}

\* a request whose nearest-neighbour call resolved with no match
C7_Witness ==
    /\ pc = "done"
    /\ Retrieved /\ Len(retrievalResult.chunks) = 0
    /\ calls[Len(calls)] = "query" /\ outcomes[Len(outcomes)] = "resolved"

\* the embedding call or the nearest-neighbour call of the request failed
RetrievalFailed ==
    \E i \in 1..Len(outcomes) :
        calls[i] \in {"embed", "query"} /\ outcomes[i] \in {"rejected", "invalid"}
Count(c) == Len(SelectSeq(calls, LAMBDA x : x = c))

\* C8: if the embedding call or the nearest-neighbour call fails, the
\* request ends as a failure with an error payload (message and the timing
\* collected so far, which is the total time only), rerank and generation
\* are never called, and the failed call is not issued again.
C8_RetrievalFailureIsFatal ==
    /\ Count("embed") <= 1 /\ Count("query") <= 1
    /\ RetrievalFailed =>
        /\ pc = "done"
        /\ response.status = 500
        /\ response.payload.error = "Query failed"
        /\ Has(response.payload, "message") /\ response.payload.message # <<>>
        /\ response.payload.timing = {"totalMs"}
        /\ Range(calls) \cap {"rerank", "generate"} = {}

\* a request whose nearest-neighbour call was rejected
C8_Witness ==
    /\ RetrievalFailed
    /\ calls[Len(calls)] = "query"
    /\ response.status = 500

\* the length of a text without its leading and trailing blanks
TrimmedLength(t) ==
    LET solid == {i \in 1..Len(t) : t[i] # " "} IN
    IF solid = {} THEN 0
    ELSE (CHOOSE i \in solid : \A j \in solid : j <= i)
         - (CHOOSE i \in solid : \A j \in solid : i <= j) + 1
Unacceptable(q) == q.type # "string" \/ TrimmedLength(q.chars) < 3

\* C9: a request whose query is missing, is not a string or has fewer than
\* 3 characters after trimming is rejected with an error payload before any
\* stage runs: no provider call is made for it.
C9_InvalidQueryRejected ==
    (Has(body, "query") /\ Unacceptable(body.query)) =>
        /\ pc = "done"
        /\ response.status = 400
        /\ Has(response.payload, "error") /\ Has(response.payload, "message")
        /\ ~Has(response.payload, "success")
        /\ calls = <<>> /\ inflight = {}

\* a rejected query that is long enough only with its blanks
C9_Witness ==
    /\ pc = "done"
    /\ Has(body, "query") /\ body.query.type = "string"
    /\ Len(body.query.chars) >= 3 /\ TrimmedLength(body.query.chars) < 3
    /\ response.status = 400

\* the rerank provider call of the request failed
RerankFailed ==
    \E i \in 1..Len(outcomes) : calls[i] = "rerank" /\ outcomes[i] = "rejected"

C11_RerankBounded ==
    Reranked =>
        LET cands == retrievalResult.chunks
            out == rerankResult.chunks
        IN  /\ Len(out) <= Max(0, Min(TopNOf(body), Len(cands)))
            /\ \A i \in 1..Len(out) :
                  \E j \in 1..Len(cands) :
                      /\ out[i].id = cands[j].id
                      /\ out[i].text = cands[j].text
                      /\ out[i].metadata = cands[j].metadata

\* the provider error signals quota exhaustion
SignalsQuota(e) ==
    \/ Has(e, "status") /\ e.status = 429
    \/ Includes(e.message, <<"4", "2", "9">>)

\* C12: when the embedding call or the nearest-neighbour call of the vector
\* store adapter fails, the error that reaches the adapter's caller is
\* marked isRateLimit=true if the provider signalled quota exhaustion, and
\* is the provider's error unchanged otherwise.
C12_RateLimitReachesCaller ==
    (raised # None /\ caught # None /\ calls[Len(calls)] \in {"embed", "query"}) =>
        IF SignalsQuota(raised)
        THEN Has(caught, "isRateLimit") /\ caught.isRateLimit
        ELSE caught = raised

\* the generation call of the request ran into the 60 second timeout
GenerationTimedOut ==
    /\ pc = "done" /\ calls # <<>> /\ calls[Len(calls)] = "generate"
    /\ outcomes[Len(outcomes)] = "abort"

\* C13: the degraded result of a generation that timed out has no
\* citations and carries an error tag and a user-facing message of its own:
\* no rate limit, upstream 5xx or generic failure of the same call gets the
\* same tag or the same message.
C13_TimeoutHasOwnTag ==
    GenerationTimedOut =>
        /\ Has(llmResult, "error")
        /\ llmResult.citations = <<>>
        /\ response.payload.citations = <<>>
        /\ \A o \in GenerationOutcomes :
              LET other == GenerateResult(body.query.chars, rerankResult.chunks, o) IN
              (o.kind # "abort" /\ Has(other, "error")) =>
                  /\ other.error # llmResult.error
                  /\ other.answer # llmResult.answer

\* C14: however the callers of initPinecone interleave, the client is
\* constructed once, at most one createIndex call is issued, and with the
\* credential set no caller fails.
C14_InitOnce ==
    /\ clients <= 1
    /\ creates <= 1
    /\ env["PINECONE_API_KEY"] => \A c \in DOMAIN callers : callers[c] # "failed"

\* C15: rerankChunks called with an empty or absent candidate list returns
\* an empty match list with duration 0 and makes no call of the rerank
\* provider.
C15_NoCandidatesShortCircuit ==
    (args # None /\ Has(args, "topN")
        /\ (~Has(args, "chunks") \/ args.chunks = <<>>)) =>
        /\ returned = [value |-> NoCandidatesResult]
        /\ calls = <<>>

\* chunkText has returned the chunks Chunks for the text args.text
Chunked == Has(args, "text") /\ Has(returned, "value")
Chunks == returned.value

\* the sentences a chunk's text is joined from
SentencesOf(chunk) == SplitIntoSentences(chunk.text)

\* C16: the position values of the chunks returned by chunkText, in output
\* order, are exactly 0, 1, ..., n-1.
C16_PositionsContiguous ==
    Chunked => \A i \in 1..Len(Chunks) : Chunks[i].metadata.position = i - 1

\* a document cut into three chunks or more
C16_Witness == Chunked /\ Len(Chunks) >= 3

\* C17: for every chunk except the first, its leading sentences are a
\* non-empty run of the trailing sentences of the chunk emitted before it.
C17_OverlapNonEmpty ==
    Chunked =>
        \A i \in 2..Len(Chunks) :
            LET prev == SentencesOf(Chunks[i - 1])
                cur == SentencesOf(Chunks[i])
            IN  \E k \in 1..Min(Len(prev), Len(cur)) :
                    SubSeq(cur, 1, k) = SubSeq(prev, Len(prev) - k + 1, Len(prev))

\* a chunk that starts with one sentence of its predecessor and goes on
\* with two sentences of its own
C17_Witness ==
    /\ Chunked /\ Len(Chunks) >= 2
    /\ LET prev == SentencesOf(Chunks[1])
           cur == SentencesOf(Chunks[2])
       IN  /\ Len(cur) >= 3
           /\ cur[1] = prev[Len(prev)]
           /\ Len(prev) >= 2 => cur[1] # prev[Len(prev) - 1]

\* C18: whenever a chunk is closed, the trailing sentences that seed the
\* next chunk have a cumulative token estimate of at most the overlap
\* target of 120 tokens.
C18_OverlapWithinTarget ==
    Chunked =>
        \A i \in 1..(Len(Chunks) - 1) :
            LET closed == SentencesOf(Chunks[i]) IN
            Overlap(closed, Len(closed), <<>>, 0).tokens <= 120

\* C19: a sentence whose token estimate alone exceeds 1200 is the only
\* sentence of every chunk that contains it.
C19_OversizedAlone ==
    Chunked =>
        \A i \in 1..Len(Chunks) :
            \A sentence \in Range(SentencesOf(Chunks[i])) :
                EstimateTokens(sentence) > 1200 => Len(SentencesOf(Chunks[i])) = 1

\* C20 as stated: for every input text of exactly 60 characters, chunkText
\* returns exactly one chunk, with position 0 and tokenEstimate 15.
C20_SixtyCharactersOneChunk ==
    (Chunked /\ TextLength(args.text) = 60) =>
        /\ Len(Chunks) = 1
        /\ Chunks[1].metadata.position = 0
        /\ Chunks[1].metadata.tokenEstimate = 15

\* the white space of t from run i on that the sentence split removes: a
\* run after sentence-ending punctuation shrinks to one blank, and goes
\* altogether at the end of the text
RECURSIVE Dropped(_, _)
Dropped(t, i) ==
    IF i > Len(t) THEN 0
    ELSE (IF i > 1 /\ t[i].class = " " /\ t[i - 1].class = "."
          THEN (IF i = Len(t) THEN t[i].n ELSE t[i].n - 1)
          ELSE 0) + Dropped(t, i + 1)

\* C20 amended: a text of exactly 60 characters that is not all white
\* space gives exactly one chunk, with position 0 and a tokenEstimate of
\* ceil(n/4), n being 60 less the white space the sentence split removes
\* (so 15 when at most 3 characters are removed); a text of 60 white-space
\* characters gives no chunk.
C20_ShortTextOneChunk ==
    (Chunked /\ TextLength(args.text) = 60) =>
        IF \A i \in 1..Len(args.text) : args.text[i].class = " "
        THEN Chunks = <<>>
        ELSE /\ Len(Chunks) = 1
             /\ Chunks[1].metadata.position = 0
             /\ Chunks[1].metadata.tokenEstimate
                    = (60 - Dropped(args.text, 1) + 3) \div 4
             /\ Dropped(args.text, 1) <= 3 => Chunks[1].metadata.tokenEstimate = 15

\* a 60 character text of two sentences with more than four blanks
\* between them
C20_Witness ==
    /\ Chunked /\ TextLength(args.text) = 60
    /\ Len(Chunks) = 1
    /\ Len(SentencesOf(Chunks[1])) = 2
    /\ Chunks[1].metadata.tokenEstimate < 15

\* C21: every chunk returned by chunkText in which no sentence by itself
\* exceeds the maximum of 1200 tokens has a tokenEstimate of at most 1200.
C21_ChunkWithinMaximum ==
    Chunked =>
        \A i \in 1..Len(Chunks) :
            (\A sentence \in Range(SentencesOf(Chunks[i])) :
                 EstimateTokens(sentence) <= 1200)
                => Chunks[i].metadata.tokenEstimate <= 1200

\* the number of leading sentences of chunk i carried over from chunk i-1
Carried(i) ==
    IF i = 1 THEN 0
    ELSE LET closed == SentencesOf(Chunks[i - 1]) IN
         Len(Overlap(closed, Len(closed), <<>>, 0).buffer)

\* where in the document the first sentence of chunk i stands
RECURSIVE FirstSentence(_)
FirstSentence(i) ==
    IF i = 1 THEN 1
    ELSE FirstSentence(i - 1) + Len(SentencesOf(Chunks[i - 1])) - Carried(i)

\* C22: each chunk's section is the label of its first sentence, the label
\* of a sentence occurrence being the most recent section header seen in
\* the document up to that occurrence (the default label when there is
\* none).
C22_SectionOfFirstSentence ==
    Chunked =>
        \A i \in 1..Len(Chunks) :
            Chunks[i].metadata.section
                = SectionAfter(SplitIntoSentences(args.text), FirstSentence(i))

\* the sentences of chunk i without those carried over
Kept(i) ==
    LET own == SentencesOf(Chunks[i]) IN SubSeq(own, Carried(i) + 1, Len(own))
RECURSIVE KeptUpTo(_)
KeptUpTo(i) == IF i = 0 THEN <<>> ELSE KeptUpTo(i - 1) \o Kept(i)

\* C27: every sentence of the sentence split appears in some chunk; the
\* chunks without the leading sentences carried over from their
\* predecessors, concatenated in order, are the sentence split itself; and
\* there are at most as many chunks as sentences.
C27_NothingLostOrReordered ==
    Chunked =>
        LET sentences == SplitIntoSentences(args.text) IN
        /\ \A k \in 1..Len(sentences) :
              \E i \in 1..Len(Chunks) : sentences[k] \in Range(SentencesOf(Chunks[i]))
        /\ KeptUpTo(Len(Chunks)) = sentences
        /\ Len(Chunks) <= Len(sentences)

\* a document of as many chunks as sentences, each later chunk carrying
\* sentences over
C27_Witness ==
    /\ Chunked /\ Len(Chunks) >= 3
    /\ Len(Chunks) = Len(SplitIntoSentences(args.text))
    /\ \E i \in 2..Len(Chunks) : Carried(i) >= 2

\* what a match or a source entry must show of the stored chunk c
SameChunk(shown, c) ==
    /\ shown.text = c.metadata.text
    /\ shown.title = c.metadata.title
    /\ shown.section = c.metadata.section
    /\ shown.position = c.metadata.position

\* C24: every match the provider returns reaches the handler as a
\* RetrievedMatch with the id, text, source, title, section and position of
\* the stored chunk, and the source entry built from it in the response
\* carries the same text, title, section and position.
C24_MatchCarriesChunk ==
    /\ retrievalResult # None =>
          \A i \in 1..Len(retrievalResult.chunks) :
              LET m == retrievalResult.chunks[i]
                  c == Stored(m.id)
              IN  /\ m.metadata.source = c.metadata.source
                  /\ SameChunk([text |-> m.text, title |-> m.metadata.title,
                                section |-> m.metadata.section,
                                position |-> m.metadata.position], c)
    /\ (pc = "done" /\ rerankResult # None /\ Has(response.payload, "sources")) =>
          \A i \in 1..Len(rerankResult.chunks) :
              LET c == Stored(rerankResult.chunks[i].id) IN
              (c.metadata.title # <<>> /\ c.metadata.section # <<>>)
                  => SameChunk(response.payload.sources[i], c)

\* the generation call of the request has settled
GenerationSettled ==
    /\ pc = "done" /\ calls # <<>> /\ calls[Len(calls)] = "generate"
    /\ llmResult # None

\* C26: a generation result is tagged rate_limit only when the provider
\* answered with HTTP 429: a timeout, a network failure, an unparsable body
\* or another 4xx answer is never tagged rate_limit, whatever its message.
C26_RateLimitOnlyOnQuota ==
    (GenerationSettled /\ Has(llmResult, "error") /\ llmResult.error = "rate_limit") =>
        /\ outcomes[Len(outcomes)] = "status"
        /\ llmResult = RateLimitedResult

\* the query handler has answered a request whose query passed validation
ValidQueryAnswered ==
    /\ pc = "done"
    /\ ~QueryMissingOrInvalid(body.query) /\ ~QueryTooShort(body.query)

\* C25 as stated: after a successful clear and until the next upsert the
\* store holds no vector and every valid query request ends with the
\* no-documents response.
C25_ClearedMeansNoDocuments ==
    cleared =>
        /\ store = {}
        /\ ValidQueryAnswered => response = NoDocumentsResponse

\* C25: after a successful clear and until the next upsert the store holds
\* no vector, and every valid query request whose embedding call and
\* nearest-neighbour call succeed ends with the no-documents response.
C25_ClearedMeansNoMatches ==
    cleared =>
        /\ store = {}
        /\ (ValidQueryAnswered /\ Retrieved) => response = NoDocumentsResponse

\* a query answered from the cleared store
C25_Witness ==
    /\ cleared /\ ValidQueryAnswered /\ Retrieved
    /\ response = NoDocumentsResponse

\* a health route has reported the service ready
ReportedReady ==
    /\ served # None
    /\ \/ served.route = "ready" /\ response.payload.ready
       \/ served.route = "health" /\ response.payload.status = "ok"

\* C28: when GET /api/health/ready answers ready=true, or GET /api/health
\* reports status 'ok', every credential the provider clients of the query
\* pipeline require is set.
C28_ReadyMeansConfigured ==
    ReportedReady => \A k \in ApiKeys : env[k]

\* C29: no request gets a second response written, and every answered
\* request got exactly one.
C29_OneResponse ==
    /\ Len(writes) <= 1
    /\ (pc = "done" \/ served # None) => Len(writes) = 1

\* the records of the write batches that have resolved
Written ==
    UNION {(calls[k].from + 1)..calls[k].to :
              k \in {j \in 1..Len(outcomes) :
                        calls[j].op = "upsert" /\ outcomes[j] = "resolved"}}

\* C23: upsertChunks embeds at most 10 texts and writes at most 100 records
\* in one call; a batch is issued only when the one before it has resolved;
\* when a batch fails upsertChunks rejects, no further batch is issued and
\* the store holds exactly the records of the write batches that resolved;
\* on success upsertedCount is the number of chunks passed in.
C23_BatchesOneAtATime ==
    Has(args, "chunks") =>
        /\ \A k \in 1..Len(calls) :
              /\ calls[k].op = "embed" => calls[k].to - calls[k].from <= 10
              /\ calls[k].op = "upsert" => calls[k].to - calls[k].from <= 100
        /\ Cardinality(inflight) <= 1
        /\ Len(calls) = Len(outcomes) + Cardinality(inflight)
        /\ \A k \in 1..Len(outcomes) :
              outcomes[k] = "rejected" =>
                  /\ k = Len(calls) /\ inflight = {}
                  /\ Has(returned, "thrown")
        /\ store = Written
        /\ Has(returned, "value") =>
              /\ returned.value.upsertedCount = args.chunks
              /\ store = 1..args.chunks

\* the second write batch failed after the first had been stored
C23_Witness ==
    /\ Has(args, "chunks") /\ Has(returned, "thrown")
    /\ store = 1..100
    /\ Len(outcomes) > 11 /\ outcomes[Len(outcomes)] = "rejected"

\* C30: once no query is in flight the answer panel shows the result of the
\* query submitted last, and while a query is in flight the loading overlay
\* is shown and the query button is disabled.
C30_LatestQueryShown ==
    /\ (submitted > 0 /\ pending = {}) => answerContent.query = submitted
    /\ pending # {} => (loadingOverlay /\ queryBtn.disabled)

====
